---- MODULE Spec2Model ----
(***************************************************************************)
(* Host functions of poem-wasmhandler (src/poem-wasmhandler/src/funcs.rs): *)
(* read_request, read_request_body, send_response, write_response_body and *)
(* poll, acting on the guest's linear memory and on WasmEndpointState.     *)
(*                                                                         *)
(* One action per host function; an action is the whole call.  The guest   *)
(* issues one call at a time; a call that traps or panics ends the         *)
(* invocation.                                                             *)
(***************************************************************************)
EXTENDS Integers, Sequences, FiniteSets, TLC

VARIABLES
    memory,               \* guest linear memory: the bytes written so far, over InitByte
    events,               \* RawEvent records poll stored in guest memory, by address
    request,              \* state.request
    request_body_buf,     \* state.request_body_buf
    request_body_eof,     \* state.request_body_eof
    request_body_reader,  \* state.request_body_reader: bytes the source has still to give
    response_body_buf,    \* state.response_body_buf
    response_body_writer, \* state.response_body_writer: bytes the sink has accepted
    response_sender,      \* state.response_sender: [alive, queue]
    status,               \* "running" | "trapped" | "panicked" | "undefined"
    calls,                \* host calls made so far
    last,                 \* the host call that has just returned: arguments and outcome
    oob,                  \* a byte outside guest memory has been read or written
    appended,             \* all bytes poll appended to request_body_buf, in order
    delivered,            \* all bytes read_request_body copied to the guest, in order
    accepted              \* all bytes write_response_body took from the guest, in order

vars == <<memory, events, request, request_body_buf, request_body_eof,
          request_body_reader, response_body_buf, response_body_writer,
          response_sender, status, calls, last, oob, appended, delivered, accepted>>

----------------------------------------------------------------------------
(* Bounds of the model *)

\* size of the guest's linear memory in bytes (one wasm page)
MemSize == 65536
\* host calls per invocation
MaxCalls == 3
\* length of the request body the source delivers
MaxBodyLen == 3
\* longest time a poll call is followed for, in milliseconds
MaxElapsed == 2
\* the sending guest: the number of bytes it sends, the size of a chunk of
\* them, the address they are at, and the calls it makes at most
SendLen == 4102
SendChunk == 4095
SendData == 1024
MaxSendCalls == 32
\* the modulus of the model's u32: offsets, lengths and counts wrap at 2^24
\* instead of 2^32, since TLC's integers are 32-bit signed
U32 == 16777216

----------------------------------------------------------------------------
(* Program constants *)

\* capacity of response_body_buf (funcs.rs:131)
RESPONSE_BODY_CAP == 4096
\* size of the read chunk `data` in poll (funcs.rs:180)
READ_CHUNK == 4096
\* u16::MAX (funcs.rs:108)
U16_MAX == 65535

ERRNO_OK == 0
ERRNO_UNKNOWN == 1
ERRNO_WOULD_BLOCK == 2
SUBSCRIPTION_TYPE_REQUEST_READ == 1
SUBSCRIPTION_TYPE_RESPONSE_WRITE == 2
SUBSCRIPTION_TYPE_TIMEOUT == 3
\* size_of::<RawSubscription>() and size_of::<RawEvent>()
RawSubscriptionSize == 24
RawEventSize == 24

----------------------------------------------------------------------------
(* Helpers *)

Min(a, b) == IF a <= b THEN a ELSE b

Take(s, n) == SubSeq(s, 1, n)

Drop(s, n) == SubSeq(s, n + 1, Len(s))

\* the guest memory image before any host write
InitByte(a) == a % 256

MemByte(m, a) == IF a \in DOMAIN m THEN m[a] ELSE InitByte(a)

\* &memory[off .. off+len]
MemRead(m, off, len) == [i \in 1..len |-> MemByte(m, off + i - 1)]

\* slice.copy_from_slice(bytes) on &mut memory[off .. off+Len(bytes)]
MemWrite(m, off, bytes) ==
    [a \in (DOMAIN m) \cup (off .. off + Len(bytes) - 1) |->
        IF a >= off /\ a < off + Len(bytes) THEN bytes[a - off + 1] ELSE m[a]]

\* mutant: the length is stored big-endian
to_le_bytes_M(n) ==
    <<(n \div 16777216) % 256, (n \div 65536) % 256, (n \div 256) % 256, n % 256>>

\* u32::to_le_bytes
to_le_bytes(n) ==
    <<n % 256, (n \div 256) % 256, (n \div 65536) % 256, (n \div 16777216) % 256>>

\* u32::from_le_bytes, the guest's reading of an out_len location
from_le_bytes(b) == b[1] + 256 * b[2] + 65536 * b[3] + 16777216 * b[4]

\* `offset + len` in u32: overflow panics in a build with overflow checks and
\* wraps otherwise; then <[u8]>::get_mut(start..end) is None when start > end
\* or end > memory.len()
get_memory_slice_mut(offset, len) ==
    LET end == (offset + len) % U32
        got == IF offset <= end /\ end <= MemSize THEN "Ok" ELSE "MemoryAccess"
    IN  IF offset + len >= U32 THEN {"Panic", got} ELSE {got}

\* how a call ends the invocation, or not
StatusAfter(result) ==
    CASE result = "Ok" -> "running"
      [] result = "Panic" -> "panicked"
      [] result = "Undefined" -> "undefined"
      [] OTHER -> "trapped"

NoEvent == [ty |-> 0, userdata |-> 0, errno |-> 0]

Call(op, a1, a2, a3, result, errno) ==
    [op |-> op, a1 |-> a1, a2 |-> a2, a3 |-> a3, result |-> result, errno |-> errno,
     subs |-> <<>>, event |-> NoEvent, elapsed |-> 0, ready |-> {}, io |-> 0]

Return(call) ==
    /\ last' = call
    /\ calls' = calls + 1
    /\ status' = StatusAfter(call.result)

\* no call has just returned
NoCall == Call("none", 0, 0, 0, "Ok", 0)

\* the guest is running and makes one call at a time
CanCall == status = "running" /\ last = NoCall

----------------------------------------------------------------------------
(* Inputs *)

\* "GET / HTTP/1.1\r\n\r\n"
RequestText ==
    <<71, 69, 84, 32, 47, 32, 72, 84, 84, 80, 47, 49, 46, 49, 13, 10, 13, 10>>

Body == [i \in 1..MaxBodyLen |-> 100 + i]

----------------------------------------------------------------------------
(* State after construction *)

Init ==
    /\ memory = <<>>
    /\ events = <<>>
    /\ request = RequestText
    /\ request_body_buf = <<>>
    /\ request_body_eof = FALSE
    /\ request_body_reader = Body
    /\ response_body_buf = <<>>
    /\ response_body_writer = <<>>
    /\ response_sender = [alive |-> TRUE, queue |-> <<>>]
    /\ status = "running"
    /\ calls = 0
    /\ last = NoCall
    /\ oob = FALSE
    /\ appended = <<>>
    /\ delivered = <<>>
    /\ accepted = <<>>

----------------------------------------------------------------------------
(* read_request, funcs.rs:54-72 *)

read_request(buf, buf_len, request_len) ==
    /\ CanCall
    /\ IF buf_len < Len(request)
       THEN \E r \in get_memory_slice_mut(request_len, 4) :
              /\ memory' = IF r = "Ok"
                           THEN MemWrite(memory, request_len, to_le_bytes(Len(request)))
                           ELSE memory
              /\ Return(Call("read_request", buf, buf_len, request_len, r, 0))
       ELSE \E r1 \in get_memory_slice_mut(buf, Len(request)) :
              IF r1 # "Ok"
              THEN /\ memory' = memory
                   /\ Return(Call("read_request", buf, buf_len, request_len, r1, 0))
              ELSE \E r2 \in get_memory_slice_mut(request_len, 4) :
                     /\ memory' =
                          LET copied == MemWrite(memory, buf, request)
                          IN  IF r2 = "Ok"
                              THEN MemWrite(copied, request_len, to_le_bytes(Len(request)))
                              ELSE copied
                     /\ Return(Call("read_request", buf, buf_len, request_len, r2, 0))
    /\ UNCHANGED <<events, request, request_body_buf, request_body_eof,
                   request_body_reader, response_body_buf, response_body_writer,
                   response_sender, oob, appended, delivered, accepted>>

----------------------------------------------------------------------------
(* read_request_body, funcs.rs:74-97 *)

\* buf_len.min(state.request_body_buf.remaining() as u32)
ReadBodySize(buf_len) == Min(buf_len, Len(request_body_buf))

\* the copy, funcs.rs:92-96: the slice at buf is taken first, then split_to
\* removes the bytes from the buffer, then the length is stored
read_request_body_copy(buf, buf_len, bytes_read) ==
    LET sz == ReadBodySize(buf_len)
    IN  \E r1 \in get_memory_slice_mut(buf, sz) :
          IF r1 # "Ok"
          THEN /\ Return(Call("read_request_body", buf, buf_len, bytes_read, r1, 0))
               /\ UNCHANGED <<memory, request_body_buf, delivered>>
          ELSE \E r2 \in get_memory_slice_mut(bytes_read, 4) :
                 /\ request_body_buf' = Drop(request_body_buf, sz)
                 /\ memory' =
                      LET copied == MemWrite(memory, buf, Take(request_body_buf, sz))
                      IN  IF r2 = "Ok" THEN MemWrite(copied, bytes_read, to_le_bytes(sz))
                                       ELSE copied
                 /\ delivered' = IF r2 = "Ok"
                                 THEN delivered \o Take(request_body_buf, sz)
                                 ELSE delivered
                 /\ Return(Call("read_request_body", buf, buf_len, bytes_read, r2, 0))

\* mutant: the end of the body is looked at only once the buffer is empty
read_request_body_eof_M(buf, buf_len, bytes_read) ==
    IF Len(request_body_buf) > 0
    THEN read_request_body_copy(buf, buf_len, bytes_read)
    ELSE /\ \E r \in get_memory_slice_mut(bytes_read, 4) :
              /\ memory' = IF r = "Ok" THEN MemWrite(memory, bytes_read, to_le_bytes(0))
                                       ELSE memory
              /\ Return(Call("read_request_body", buf, buf_len, bytes_read, r, ERRNO_OK))
         /\ UNCHANGED <<request_body_buf, delivered>>

\* the EOF branch, funcs.rs:83-86
read_request_body_eof(buf, buf_len, bytes_read) ==
    /\ \E r \in get_memory_slice_mut(bytes_read, 4) :
         /\ memory' = IF r = "Ok" THEN MemWrite(memory, bytes_read, to_le_bytes(0))
                                  ELSE memory
         /\ Return(Call("read_request_body", buf, buf_len, bytes_read, r, ERRNO_OK))
    /\ UNCHANGED <<request_body_buf, delivered>>

read_request_body(buf, buf_len, bytes_read) ==
    /\ CanCall
    /\ IF request_body_eof
       THEN read_request_body_eof(buf, buf_len, bytes_read)
       ELSE IF Len(request_body_buf) = 0
       THEN /\ Return(Call("read_request_body", buf, buf_len, bytes_read, "Ok",
                           ERRNO_WOULD_BLOCK))
            /\ UNCHANGED <<memory, request_body_buf, delivered>>
       ELSE read_request_body_copy(buf, buf_len, bytes_read)
    /\ UNCHANGED <<events, request, request_body_eof, request_body_reader,
                   response_body_buf, response_body_writer, response_sender, oob,
                   appended, accepted>>

----------------------------------------------------------------------------
(* send_response, funcs.rs:99-119 *)

\* StatusCode::from_u16 accepts 100..=999
StatusCodeFromU16Ok(code) == code >= 100 /\ code < 1000

RECURSIVE Utf8From(_, _)
\* std::str::from_utf8(b).is_ok(), from position i on
Utf8From(b, i) ==
    IF i > Len(b) THEN TRUE
    ELSE LET c == b[i]
             In(k, lo, hi) == k <= Len(b) /\ b[k] >= lo /\ b[k] <= hi
             Cont(k) == In(k, 128, 191)
         IN  CASE c < 128 -> Utf8From(b, i + 1)
               [] c >= 194 /\ c <= 223 -> Cont(i + 1) /\ Utf8From(b, i + 2)
               [] c = 224 -> In(i + 1, 160, 191) /\ Cont(i + 2) /\ Utf8From(b, i + 3)
               [] (c >= 225 /\ c <= 236) \/ c = 238 \/ c = 239 ->
                    Cont(i + 1) /\ Cont(i + 2) /\ Utf8From(b, i + 3)
               [] c = 237 -> In(i + 1, 128, 159) /\ Cont(i + 2) /\ Utf8From(b, i + 3)
               [] c = 240 ->
                    In(i + 1, 144, 191) /\ Cont(i + 2) /\ Cont(i + 3) /\ Utf8From(b, i + 4)
               [] c >= 241 /\ c <= 243 ->
                    Cont(i + 1) /\ Cont(i + 2) /\ Cont(i + 3) /\ Utf8From(b, i + 4)
               [] c = 244 ->
                    In(i + 1, 128, 143) /\ Cont(i + 2) /\ Cont(i + 3) /\ Utf8From(b, i + 4)
               [] OTHER -> FALSE

\* the (status, headers) message; the header map is kept as the text it is decoded from
ResponseMsg(code, data) == [status |-> code, headers |-> data]

\* `let _ = state.response_sender.send(..)`: queued when the receiver is alive,
\* an ignored error otherwise
SenderSend(sender, msg) ==
    IF sender.alive THEN [sender EXCEPT !.queue = Append(@, msg)] ELSE sender

\* the framework may have dropped the receiving end by the time of a send
ReceiverDrop(sender, dropped) == [sender EXCEPT !.alive = @ /\ ~dropped]

\* mutant: the error of a send to a dropped receiver is unwrapped
send_result_M(sender) == IF sender.alive THEN "Ok" ELSE "Panic"

\* `let _ = ..send(..); Ok(())`, funcs.rs:117-118: the result of the send is
\* discarded and the call succeeds whether the receiver is alive or not
send_result(sender) == "Ok"

send_response(code, headers_buf, headers_buf_len, dropped) ==
    /\ CanCall
    /\ IF code > U16_MAX \/ ~StatusCodeFromU16Ok(code)
       THEN /\ Return(Call("send_response", code, headers_buf, headers_buf_len,
                           "InvalidStatusCode", 0))
            /\ UNCHANGED response_sender
       ELSE \E r \in get_memory_slice_mut(headers_buf, headers_buf_len) :
              IF r # "Ok"
              THEN /\ Return(Call("send_response", code, headers_buf, headers_buf_len, r, 0))
                   /\ UNCHANGED response_sender
              ELSE LET data == MemRead(memory, headers_buf, headers_buf_len)
                   IN  IF ~Utf8From(data, 1)
                       THEN /\ Return(Call("send_response", code, headers_buf,
                                           headers_buf_len, "Panic", 0))
                            /\ UNCHANGED response_sender
                       ELSE /\ response_sender' =
                                 SenderSend(ReceiverDrop(response_sender, dropped),
                                            ResponseMsg(code, data))
                            /\ Return(Call("send_response", code, headers_buf,
                                           headers_buf_len,
                                           send_result(ReceiverDrop(response_sender,
                                                                    dropped)), 0))
    /\ UNCHANGED <<memory, events, request, request_body_buf, request_body_eof,
                   request_body_reader, response_body_buf, response_body_writer, oob,
                   appended, delivered, accepted>>

----------------------------------------------------------------------------
(* write_response_body, funcs.rs:121-141 *)

\* mutant: the free capacity is not taken into account
WriteBodySize_M(data_len) == data_len

\* data_len.min(4096 - state.response_body_buf.len() as u32)
WriteBodySize(data_len) ==
    Min(data_len, (RESPONSE_BODY_CAP - Len(response_body_buf)) % U32)

write_response_body(data, data_len, bytes_written) ==
    /\ CanCall
    /\ \E r1 \in get_memory_slice_mut(data, data_len) :
         IF r1 # "Ok"
         THEN /\ Return(Call("write_response_body", data, data_len, bytes_written, r1, 0))
              /\ UNCHANGED <<memory, response_body_buf, accepted>>
         ELSE LET sz == WriteBodySize(data_len)
              IN  IF sz = 0
                  THEN /\ Return(Call("write_response_body", data, data_len,
                                      bytes_written, "Ok", ERRNO_WOULD_BLOCK))
                       /\ UNCHANGED <<memory, response_body_buf, accepted>>
                  ELSE \E r2 \in get_memory_slice_mut(bytes_written, 4) :
                         /\ response_body_buf' =
                              response_body_buf \o MemRead(memory, data, sz)
                         /\ accepted' = accepted \o MemRead(memory, data, sz)
                         /\ memory' = IF r2 = "Ok"
                                      THEN MemWrite(memory, bytes_written, to_le_bytes(sz))
                                      ELSE memory
                         /\ Return(Call("write_response_body", data, data_len,
                                        bytes_written, r2, ERRNO_OK))
    /\ UNCHANGED <<events, request, request_body_buf, request_body_eof,
                   request_body_reader, response_body_writer, response_sender, oob,
                   appended, delivered>>

----------------------------------------------------------------------------
(* poll, funcs.rs:143-262 *)

\* mutant: the check of the count is missing
NoSubscriptions_M(num_subscriptions) == FALSE

\* num_subscriptions == 0, funcs.rs:153
NoSubscriptions(num_subscriptions) == num_subscriptions = 0

\* std::slice::from_raw_parts(memory + subscriptions, n): the range the
\* unchecked read covers lies inside the guest memory
SubscriptionsInMemory(subscriptions, n) ==
    subscriptions + n * RawSubscriptionSize <= MemSize

\* *(memory + event as *mut RawEvent) = ..: the range the unchecked store covers
\* lies inside the guest memory
EventInMemory(event) == event + RawEventSize <= MemSize

\* mutant: the last subscription of the kind is taken
FindFirst_M(subs, ty) ==
    LET idx == {i \in 1..Len(subs) : subs[i].ty = ty}
    IN  IF idx = {} THEN <<>>
        ELSE <<subs[CHOOSE i \in idx : \A j \in idx : i >= j]>>

\* subscriptions.iter().find(|item| item.ty == ty): the first of that kind, if any
FindFirst(subs, ty) ==
    LET idx == {i \in 1..Len(subs) : subs[i].ty = ty}
    IN  IF idx = {} THEN <<>>
        ELSE <<subs[CHOOSE i \in idx : \A j \in idx : i <= j]>>

IsTimeout(s) == s.ty = SUBSCRIPTION_TYPE_TIMEOUT

\* the futures vector, in the order it is pushed: the request read, the
\* response write, then one timer per timeout subscription
Futures(subs) ==
    FindFirst(subs, SUBSCRIPTION_TYPE_REQUEST_READ)
        \o FindFirst(subs, SUBSCRIPTION_TYPE_RESPONSE_WRITE)
        \o SelectSeq(subs, IsTimeout)

\* mutant: the timer does not wait for the subscription's timeout
CanComplete_M(f, elapsed) == TRUE

\* tokio::time::sleep(Duration::from_millis(timeout)) is done no earlier than
\* `timeout` ms after the call; the two I/O futures may complete at any time
CanComplete(f, elapsed) == IsTimeout(f) => f.timeout <= elapsed

\* select_all polls the futures in order: the first ready one wins
Winner(ready) == CHOOSE i \in ready : \A j \in ready : i <= j

\* request_body_reader.read(&mut data): Ok(n) with the next n <= 4096 bytes,
\* Ok(0) at the end of the body, or Err (-1)
ReadResults ==
    IF Len(request_body_reader) = 0 THEN {0, -1}
    ELSE {1, Min(READ_CHUNK, Len(request_body_reader)), -1}

\* response_body_writer.write(&response_body_buf): Ok(n) with n bytes of the
\* buffer taken, or Err (-1)
WriteResults == {0, Min(1, Len(response_body_buf)), Len(response_body_buf), -1}

\* mutant: the flag is assigned whether the read returned zero bytes
request_read_future_Assign_M(n) ==
    /\ request_body_eof' = (n = 0)
    /\ request_body_buf' = IF n > 0 THEN request_body_buf \o Take(request_body_reader, n)
                                    ELSE request_body_buf
    /\ appended' = IF n > 0 THEN appended \o Take(request_body_reader, n) ELSE appended
    /\ request_body_reader' = IF n > 0 THEN Drop(request_body_reader, n)
                                       ELSE request_body_reader
    /\ UNCHANGED <<response_body_buf, response_body_writer>>

\* mutant: the bytes of a successful read are not put into the buffer
request_read_future_NoExtend_M(n) ==
    /\ request_body_eof' = IF n = 0 THEN TRUE ELSE request_body_eof
    /\ request_body_buf' = request_body_buf
    /\ appended' = IF n > 0 THEN appended \o Take(request_body_reader, n) ELSE appended
    /\ request_body_reader' = IF n > 0 THEN Drop(request_body_reader, n)
                                       ELSE request_body_reader
    /\ UNCHANGED <<response_body_buf, response_body_writer>>

\* the request-read future, funcs.rs:179-205
request_read_future(n) ==
    /\ request_body_eof' = IF n = 0 THEN TRUE ELSE request_body_eof
    /\ request_body_buf' = IF n > 0 THEN request_body_buf \o Take(request_body_reader, n)
                                    ELSE request_body_buf
    /\ appended' = IF n > 0 THEN appended \o Take(request_body_reader, n) ELSE appended
    /\ request_body_reader' = IF n > 0 THEN Drop(request_body_reader, n)
                                       ELSE request_body_reader
    /\ UNCHANGED <<response_body_buf, response_body_writer>>

\* mutant: a successful write empties the buffer
response_write_future_Clear_M(n) ==
    /\ response_body_buf' = IF n > 0 THEN <<>> ELSE response_body_buf
    /\ response_body_writer' = IF n > 0 THEN response_body_writer \o Take(response_body_buf, n)
                                        ELSE response_body_writer
    /\ UNCHANGED <<request_body_eof, request_body_buf, appended, request_body_reader>>

\* mutant: a successful write leaves the buffer as it is
response_write_future_NoAdvance_M(n) ==
    /\ response_body_buf' = response_body_buf
    /\ response_body_writer' = response_body_writer
    /\ UNCHANGED <<request_body_eof, request_body_buf, appended, request_body_reader>>

\* mutant: the read of the losing request-read future has taken a byte of the
\* body by the time the future is dropped
response_write_future_M(n) ==
    /\ response_body_buf' = IF n > 0 THEN Drop(response_body_buf, n) ELSE response_body_buf
    /\ response_body_writer' = IF n > 0 THEN response_body_writer \o Take(response_body_buf, n)
                                        ELSE response_body_writer
    /\ request_body_reader' = Drop(request_body_reader, Min(1, Len(request_body_reader)))
    /\ UNCHANGED <<request_body_eof, request_body_buf, appended>>

\* the response-write future, funcs.rs:216-232
response_write_future(n) ==
    /\ response_body_buf' = IF n > 0 THEN Drop(response_body_buf, n) ELSE response_body_buf
    /\ response_body_writer' = IF n > 0 THEN response_body_writer \o Take(response_body_buf, n)
                                        ELSE response_body_writer
    /\ UNCHANGED <<request_body_eof, request_body_buf, appended, request_body_reader>>

\* the timer future, funcs.rs:242-250
timeout_future ==
    UNCHANGED <<request_body_eof, request_body_buf, appended, request_body_reader,
                response_body_buf, response_body_writer>>

\* mutant: a failed read or write is reported with status OK
EventOf_M(f, n) == [ty |-> f.ty, userdata |-> f.userdata, errno |-> ERRNO_OK]

\* the RawEvent a completed future yields
EventOf(f, n) ==
    [ty |-> f.ty, userdata |-> f.userdata,
     errno |-> IF n >= 0 THEN ERRNO_OK ELSE ERRNO_UNKNOWN]

PollCall(subscriptions, subs, event, result, ev, elapsed, ready, n) ==
    [Call("poll", subscriptions, Len(subs), event, result, 0) EXCEPT
        !.subs = subs, !.event = ev, !.elapsed = elapsed, !.ready = ready, !.io = n]

\* the store of the event record, funcs.rs:256-259.  It is not checked against
\* the memory size: a store outside the memory is undefined behaviour, and the
\* invocation is not followed past it
store_event(subscriptions, subs, event, ev, elapsed, ready, n) ==
    IF EventInMemory(event)
    THEN /\ events' = (event :> ev) @@ events
         /\ oob' = oob
         /\ Return(PollCall(subscriptions, subs, event, "Ok", ev, elapsed, ready, n))
    ELSE /\ events' = events
         /\ oob' = TRUE
         /\ Return(PollCall(subscriptions, subs, event, "Undefined", ev, elapsed, ready, n))

\* the race, funcs.rs:171-259: `subs` is the subscription array the guest stored
race(subscriptions, subs, event) ==
    LET futures == Futures(subs)
    IN  IF futures = <<>>
        THEN \* select_all panics on an empty set of futures
             /\ oob' = oob
             /\ Return(PollCall(subscriptions, subs, event, "Panic", NoEvent, 0, {}, 0))
             /\ UNCHANGED <<events, request_body_eof, request_body_buf, appended,
                            request_body_reader, response_body_buf, response_body_writer>>
        ELSE \E elapsed \in (IF \E i \in 1..Len(futures) : IsTimeout(futures[i])
                             THEN 0..MaxElapsed ELSE {0}) :
             \E ready \in SUBSET (1..Len(futures)) :
               /\ ready # {}
               /\ \A i \in ready : CanComplete(futures[i], elapsed)
               /\ LET f == futures[Winner(ready)]
                  IN  CASE f.ty = SUBSCRIPTION_TYPE_REQUEST_READ ->
                             \E n \in ReadResults :
                               /\ request_read_future(n)
                               /\ store_event(subscriptions, subs, event, EventOf(f, n),
                                              elapsed, ready, n)
                        [] f.ty = SUBSCRIPTION_TYPE_RESPONSE_WRITE ->
                             \E n \in WriteResults :
                               /\ response_write_future(n)
                               /\ store_event(subscriptions, subs, event, EventOf(f, n),
                                              elapsed, ready, n)
                        [] OTHER ->
                             /\ timeout_future
                             /\ store_event(subscriptions, subs, event, EventOf(f, 0),
                                            elapsed, ready, 0)

poll(subscriptions, subs, event) ==
    /\ CanCall
    /\ IF NoSubscriptions(Len(subs))
       THEN /\ Return(PollCall(subscriptions, subs, event, "NoSubscriptions", NoEvent,
                               0, {}, 0))
            /\ UNCHANGED <<events, oob, request_body_eof, request_body_buf, appended,
                           request_body_reader, response_body_buf, response_body_writer>>
       ELSE IF ~SubscriptionsInMemory(subscriptions, Len(subs))
       THEN \* the unchecked read of the array outside the memory is undefined
            \* behaviour, and the invocation is not followed past it
            /\ oob' = TRUE
            /\ Return(PollCall(subscriptions, subs, event, "Undefined", NoEvent, 0, {}, 0))
            /\ UNCHANGED <<events, request_body_eof, request_body_buf, appended,
                           request_body_reader, response_body_buf, response_body_writer>>
       ELSE race(subscriptions, subs, event)
    /\ UNCHANGED <<memory, request, response_sender, delivered, accepted>>

----------------------------------------------------------------------------
(* The guest *)

\* the guest takes the result of the call and runs on to its next call, of
\* which it makes MaxCalls at most
guest_resume ==
    /\ status = "running"
    /\ last # NoCall
    /\ calls < MaxCalls
    /\ last' = NoCall
    /\ UNCHANGED <<memory, events, request, request_body_buf, request_body_eof,
                   request_body_reader, response_body_buf, response_body_writer,
                   response_sender, status, calls, oob, appended, delivered, accepted>>

Sub(ty, userdata, timeout) == [ty |-> ty, userdata |-> userdata, timeout |-> timeout]

R1 == Sub(SUBSCRIPTION_TYPE_REQUEST_READ, 11, 0)
R2 == Sub(SUBSCRIPTION_TYPE_REQUEST_READ, 12, 0)
W1 == Sub(SUBSCRIPTION_TYPE_RESPONSE_WRITE, 21, 0)
W2 == Sub(SUBSCRIPTION_TYPE_RESPONSE_WRITE, 22, 0)
T1 == Sub(SUBSCRIPTION_TYPE_TIMEOUT, 31, 1)
T2 == Sub(SUBSCRIPTION_TYPE_TIMEOUT, 32, 2)
\* 9 is no subscription type
X1 == Sub(9, 41, 0)

\* the subscription arrays the guest polls with
SubLists ==
    { <<>>, <<R1>>, <<W1>>, <<T1>>, <<X1>>,
      <<R1, W1>>, <<W1, R1>>, <<R2, R1>>, <<W2, W1>>, <<T2, T1>>,
      <<T1, R1>>, <<X1, W1>> }

\* (buf, buf_len, request_len)
ReadRequestCalls ==
    { <<0, 10, 64>>, <<0, 18, 64>>, <<0, 18, 4>>, <<0, 64, 64>>,
      <<MemSize - 2, 18, 64>>, <<0, 10, MemSize - 2>>, <<0, 18, MemSize - 2>>,
      <<0, 10, U32 - 2>> }

\* (buf, buf_len, bytes_read)
ReadRequestBodyCalls ==
    { <<96, 0, 128>>, <<96, 1, 128>>, <<96, 4, 128>>,
      <<MemSize - 1, 4, 128>>, <<96, 4, MemSize - 3>>, <<U32 - 1, 4, 128>> }

\* (status, headers_buf, headers_buf_len)
SendResponseCalls ==
    { <<200, 0, 2>>, <<404, 0, 0>>, <<200, 128, 2>>, <<99, 0, 2>>, <<65536, 0, 2>>,
      <<200, MemSize - 1, 2>> }

\* (data, data_len, bytes_written)
WriteResponseBodyCalls ==
    { <<0, 0, 200>>, <<0, 20, 200>>, <<0, 4090, 200>>,
      <<MemSize - 4, 20, 200>>, <<0, 20, MemSize - 3>>, <<0, 0, MemSize - 3>> }

\* (subscriptions, the array stored there, event)
PollCalls ==
    { <<256, subs, 512>> : subs \in SubLists }
        \cup { <<MemSize - 8, <<>>, 512>>, <<MemSize - 8, <<R1>>, 512>>,
               <<256, <<R1>>, MemSize - 4>>, <<256, <<W1>>, MemSize - 4>>,
               <<256, <<T1>>, MemSize - 4>> }

Next ==
    \/ \E c \in ReadRequestCalls : read_request(c[1], c[2], c[3])
    \/ \E c \in ReadRequestBodyCalls : read_request_body(c[1], c[2], c[3])
    \/ \E c \in SendResponseCalls, dropped \in BOOLEAN :
         send_response(c[1], c[2], c[3], dropped)
    \/ \E c \in WriteResponseBodyCalls : write_response_body(c[1], c[2], c[3])
    \/ \E c \in PollCalls : poll(c[1], c[2], c[3])
    \/ guest_resume

Spec == Init /\ [][Next]_vars

----------------------------------------------------------------------------
(* The sending guest: it has SendLen bytes at SendData to send.  It calls
   write_response_body with what is left of them; when the call returns
   would-block it calls poll with one response-writable subscription, and
   then writes again. *)

\* where the guest keeps the errno of the call that returned last
GuestErrno == 768

\* the bytes to send, as the guest's memory holds them
SendBytes == MemRead(<<>>, SendData, SendLen)

send_resume ==
    /\ status = "running"
    /\ last # NoCall
    /\ calls < MaxSendCalls
    /\ last' = NoCall
    /\ memory' = MemWrite(memory, GuestErrno, <<last.errno>>)
    /\ UNCHANGED <<events, request, request_body_buf, request_body_eof,
                   request_body_reader, response_body_buf, response_body_writer,
                   response_sender, status, calls, oob, appended, delivered, accepted>>

\* the guest offers all that is left, or a chunk of it
SendWrite ==
    /\ Len(accepted) < SendLen
    /\ MemByte(memory, GuestErrno) # ERRNO_WOULD_BLOCK
    /\ \E data_len \in {SendLen - Len(accepted), Min(SendLen - Len(accepted), SendChunk)} :
         write_response_body(SendData + Len(accepted), data_len, 200)

\* the sink takes at least one byte of a non-empty write and does not fail
SendPoll ==
    /\ MemByte(memory, GuestErrno) = ERRNO_WOULD_BLOCK
    /\ poll(256, <<W1>>, 512)
    /\ last'.io >= 1

SendNext == SendWrite \/ SendPoll \/ send_resume

\* the guest's code runs on whenever it can
SpecSend ==
    /\ Init
    /\ [][SendNext]_vars
    /\ WF_vars(SendWrite) /\ WF_vars(SendPoll) /\ WF_vars(send_resume)

----------------------------------------------------------------------------
(* Properties *)

\* the step is a call of the host function `op`
Step(op) == calls' = calls + 1 /\ last'.op = op

\* the range [off, off+len) lies inside the guest memory
InMemory(off, len) == off + len <= MemSize

\* the u32 the guest finds at an out_len location
OutLen(m, addr) == from_le_bytes(MemRead(m, addr, 4))

\* the bytes of m2 that differ from m1 all lie in `changed`
SameOutside(m1, m2, changed) ==
    \A a \in ((DOMAIN m1) \cup (DOMAIN m2)) \ changed : MemByte(m2, a) = MemByte(m1, a)

HasKind(futures, ty) == \E i \in 1..Len(futures) : futures[i].ty = ty

\* C1: the bytes poll appended to the inbound buffer are, in order, exactly
\* the bytes read_request_body hands to the guest: while the invocation runs,
\* the appended bytes are the delivered ones followed by the buffered ones, and
\* a read_request_body call with room for a byte reports "0 bytes, OK" (the
\* end of the body) only when no appended byte is left undelivered.
C1_RoundTrip ==
    status = "running" =>
        /\ appended = delivered \o request_body_buf
        /\ ( /\ last.op = "read_request_body"
             /\ last.result = "Ok"
             /\ last.errno = ERRNO_OK
             /\ last.a2 > 0
             /\ OutLen(memory, last.a3) = 0 )
           => delivered = appended

\* C2: no host function reads or writes a byte outside the guest memory; a
\* range that is not inside the memory never leads to an unchecked access.
C2_AccessValidated == oob = FALSE /\ last.result # "Undefined"

\* C3: the outbound buffer never holds more than 4096 bytes, and a
\* write_response_body call of n bytes of guest data on a buffer with free
\* capacity c appends exactly the first min(c, n) bytes of that data.
C3_WriteBounded ==
    /\ Len(response_body_buf) <= 4096
    /\ [][ /\ Len(response_body_buf') <= 4096
           /\ (Step("write_response_body") /\ InMemory(last'.a1, last'.a2)) =>
                response_body_buf' =
                    response_body_buf \o
                        Take(MemRead(memory, last'.a1, last'.a2),
                             Min(4096 - Len(response_body_buf), last'.a2)) ]_vars

\* C3 witness: a 20-byte write on a buffer of 4090 bytes took 6 bytes and filled it
C3_Witness ==
    /\ last.op = "write_response_body"
    /\ last.a2 = 20
    /\ last.result = "Ok"
    /\ Len(response_body_buf) = 4096
    /\ OutLen(memory, last.a3) = 6

\* C4: once request_body_eof is true it stays true, and every read_request_body
\* call whose bytes_read location is in memory stores 0 there, returns OK and
\* changes neither the inbound buffer nor the flag.
C4_EofReadsZero ==
    [][ request_body_eof =>
          /\ request_body_eof'
          /\ (Step("read_request_body") /\ InMemory(last'.a3, 4)) =>
               /\ last'.result = "Ok"
               /\ last'.errno = ERRNO_OK
               /\ OutLen(memory', last'.a3) = 0
               /\ request_body_buf' = request_body_buf ]_vars

\* C4 witness: a read_request_body call after the end of the body, with
\* bytes still in the buffer
C4_Witness ==
    /\ request_body_eof
    /\ request_body_buf # <<>>
    /\ last.op = "read_request_body"
    /\ last.result = "Ok"
    /\ last.a2 > 0
    /\ OutLen(memory, last.a3) = 0

\* C5: a poll call that races the request-read and the response-write source
\* stores exactly one event, and only the winner's effect is applied: when the
\* request read wins, the outbound buffer and the sink are unchanged; when the
\* response write wins, the inbound buffer, the EOF flag and the body source
\* are unchanged.
C5_OnlyWinnerActs ==
    [][ ( /\ Step("poll")
          /\ last'.result = "Ok"
          /\ HasKind(Futures(last'.subs), SUBSCRIPTION_TYPE_REQUEST_READ)
          /\ HasKind(Futures(last'.subs), SUBSCRIPTION_TYPE_RESPONSE_WRITE) ) =>
          /\ events' = (last'.a3 :> last'.event) @@ events
          /\ last'.event.ty = SUBSCRIPTION_TYPE_REQUEST_READ =>
               /\ response_body_buf' = response_body_buf
               /\ response_body_writer' = response_body_writer
          /\ last'.event.ty = SUBSCRIPTION_TYPE_RESPONSE_WRITE =>
               /\ request_body_buf' = request_body_buf
               /\ request_body_eof' = request_body_eof
               /\ request_body_reader' = request_body_reader
          /\ last'.event.ty = SUBSCRIPTION_TYPE_TIMEOUT =>
               UNCHANGED <<request_body_buf, request_body_eof, request_body_reader,
                           response_body_buf, response_body_writer>> ]_vars

\* C5 witness: both sources were ready, the request read won and appended
\* bytes, and the outbound buffer still holds the bytes the sink was to take
C5_Witness ==
    /\ last.op = "poll"
    /\ last.result = "Ok"
    /\ last.ready = {1, 2}
    /\ last.event.ty = SUBSCRIPTION_TYPE_REQUEST_READ
    /\ last.io > 0
    /\ response_body_buf # <<>>
    /\ response_body_writer = <<>>

\* C6: poll with num_subscriptions = 0 fails with NoSubscriptions; no source,
\* sink or timer is driven, no event is stored, and the buffers, the EOF flag
\* and the guest memory are unchanged.
C6_NoSubscriptions ==
    [][ (Step("poll") /\ last'.a2 = 0) =>
          /\ last'.result = "NoSubscriptions"
          /\ last'.elapsed = 0
          /\ UNCHANGED <<memory, events, request_body_buf, request_body_eof,
                         request_body_reader, response_body_buf, response_body_writer,
                         response_sender, oob>> ]_vars

\* C6 witness: a poll call with no subscription ended the invocation
C6_Witness ==
    /\ last.op = "poll"
    /\ last.a2 = 0
    /\ last.result = "NoSubscriptions"
    /\ status = "trapped"

\* C7: a poll call with exactly one subscription, a timeout of d ms with
\* userdata u, that resolves does so no earlier than d ms after the call,
\* stores the event {timeout, u, OK} and changes neither buffer nor the EOF
\* flag.
C7_SingleTimeout ==
    [][ ( /\ Step("poll")
          /\ last'.result = "Ok"
          /\ Len(last'.subs) = 1
          /\ IsTimeout(last'.subs[1]) ) =>
          /\ last'.elapsed >= last'.subs[1].timeout
          /\ last'.a3 \in DOMAIN events'
          /\ events'[last'.a3] = [ty |-> SUBSCRIPTION_TYPE_TIMEOUT,
                                  userdata |-> last'.subs[1].userdata,
                                  errno |-> ERRNO_OK]
          /\ UNCHANGED <<request_body_buf, request_body_eof, response_body_buf>> ]_vars

\* C7 witness: a poll call on one 1 ms timeout resolved
C7_Witness ==
    /\ last.op = "poll"
    /\ last.result = "Ok"
    /\ last.subs = <<T1>>
    /\ last.elapsed >= 1
    /\ events[last.a3].ty = SUBSCRIPTION_TYPE_TIMEOUT

\* C8: a read_request call whose memory arguments are valid succeeds and
\* stores len(request) little-endian at request_len; with buf_len < len(request)
\* no other byte of the guest memory changes; otherwise the len(request) bytes
\* at buf are those of the request (but for any the length overwrote) and no
\* byte elsewhere changes.  The endpoint state is unchanged.
C8_ReadRequest ==
    [][ ( /\ Step("read_request")
          /\ InMemory(last'.a3, 4)
          /\ (last'.a2 >= Len(request) => InMemory(last'.a1, Len(request))) ) =>
          LET buf == last'.a1
              lenAt == last'.a3 .. last'.a3 + 3
              textAt == IF last'.a2 >= Len(request)
                        THEN buf .. buf + Len(request) - 1 ELSE {}
          IN  /\ last'.result = "Ok"
              /\ OutLen(memory', last'.a3) = Len(request)
              /\ MemRead(memory', last'.a3, 4) =
                    <<Len(request) % 256, (Len(request) \div 256) % 256, 0, 0>>
              /\ \A a \in textAt \ lenAt : MemByte(memory', a) = request[a - buf + 1]
              /\ SameOutside(memory, memory', lenAt \cup textAt)
              /\ UNCHANGED <<events, request, request_body_buf, request_body_eof,
                             request_body_reader, response_body_buf,
                             response_body_writer, response_sender>> ]_vars

\* C8 witness: a read_request call with a buffer of the request's size copied it
C8_Witness ==
    /\ last.op = "read_request"
    /\ last.result = "Ok"
    /\ last.a2 = Len(request)
    /\ MemRead(memory, last.a1, Len(request)) = request
    /\ OutLen(memory, last.a3) = Len(request)

\* C9: over the send_response calls of one invocation the (status, headers)
\* pair is delivered through the response sender at most once.
C9_DeliveredOnce == Len(response_sender.queue) <= 1

\* C10: write_response_body returns would-block exactly when the outbound
\* buffer has no free capacity, and then copies nothing; in every other call
\* with valid memory arguments it returns OK and stores the accepted count
\* min(data_len, free capacity).
C10_WouldBlockIffFull ==
    [][ ( /\ Step("write_response_body")
          /\ InMemory(last'.a1, last'.a2)
          /\ InMemory(last'.a3, 4) ) =>
          /\ last'.result = "Ok"
          /\ IF Len(response_body_buf) = 4096
             THEN /\ last'.errno = ERRNO_WOULD_BLOCK
                  /\ UNCHANGED <<memory, response_body_buf>>
             ELSE /\ last'.errno = ERRNO_OK
                  /\ OutLen(memory', last'.a3) =
                        Min(last'.a2, 4096 - Len(response_body_buf)) ]_vars

\* the first range a read_request or write_response_body call hands to
\* get_memory_slice_mut
FirstSliceInMemory(call) ==
    CASE call.op = "write_response_body" -> InMemory(call.a1, call.a2)
      [] call.op = "read_request" ->
           IF call.a2 < Len(request) THEN InMemory(call.a3, 4)
                                     ELSE InMemory(call.a1, Len(request))
      [] OTHER -> TRUE

\* C11: get_memory_slice_mut rejects every (offset, len) whose mathematical
\* sum exceeds the memory size, a sum that overflows 32 bits included, with
\* MemoryAccess and without touching memory: a read_request or
\* write_response_body call whose first range is not inside the memory ends
\* with MemoryAccess and leaves the memory as it was, and a read_request call
\* that only stores the length at a location inside the memory succeeds.
C11_SliceChecked ==
    [][ /\ ( /\ Step("read_request") \/ Step("write_response_body")
             /\ ~FirstSliceInMemory(last') ) =>
               /\ last'.result = "MemoryAccess"
               /\ memory' = memory
        /\ ( /\ Step("read_request")
             /\ last'.a2 < Len(request)
             /\ InMemory(last'.a3, 4) ) => last'.result = "Ok" ]_vars

\* C12: send_response with a valid status and valid UTF-8 headers inside the
\* memory returns success when the receiving end of the response channel is
\* gone: the failed delivery is neither a trap nor an error, nothing is
\* queued, and the inbound buffer, the outbound buffer and the EOF flag are
\* as before.
C12_SendToDroppedReceiver ==
    [][ ( /\ Step("send_response")
          /\ last'.a1 >= 100 /\ last'.a1 <= 999
          /\ InMemory(last'.a2, last'.a3)
          /\ Utf8From(MemRead(memory, last'.a2, last'.a3), 1)
          /\ ~response_sender'.alive ) =>
          /\ last'.result = "Ok"
          /\ status' = "running"
          /\ response_sender'.queue = response_sender.queue
          /\ UNCHANGED <<request_body_buf, response_body_buf, request_body_eof>> ]_vars

\* C12 witness: a send_response call returned success although the receiver
\* was gone and nothing had been delivered
C12_Witness ==
    /\ last.op = "send_response"
    /\ last.a1 = 200
    /\ last.result = "Ok"
    /\ ~response_sender.alive
    /\ response_sender.queue = <<>>

\* read_request_body has something to report: the end of the body or a byte
ReadReady == request_body_eof \/ request_body_buf # <<>>

\* C13: after poll resolves with a request-readable event of status OK, the
\* immediately following read_request_body call with buf_len > 0 and valid
\* memory arguments does not return would-block: such a poll leaves the EOF
\* flag set or the inbound buffer non-empty, the guest's resuming changes
\* neither, and from such a state read_request_body returns OK with at least
\* one byte, or with zero bytes because the EOF flag is set.
C13_ReadAfterReadable ==
    [][ /\ ( /\ Step("poll")
             /\ last'.result = "Ok"
             /\ last'.event.ty = SUBSCRIPTION_TYPE_REQUEST_READ
             /\ last'.event.errno = ERRNO_OK ) => ReadReady'
        /\ (last.op = "poll" /\ last' = NoCall) =>
               UNCHANGED <<request_body_buf, request_body_eof>>
        /\ ( /\ Step("read_request_body")
             /\ ReadReady
             /\ last'.a2 > 0
             /\ InMemory(last'.a1, Min(last'.a2, Len(request_body_buf)))
             /\ InMemory(last'.a3, 4) ) =>
               /\ last'.result = "Ok"
               /\ last'.errno = ERRNO_OK
               /\ \/ OutLen(memory', last'.a3) >= 1
                  \/ request_body_eof /\ OutLen(memory', last'.a3) = 0 ]_vars

\* C13 witness: the first call was a poll that stored a request-readable event
\* of status OK, and the read_request_body call after it returned a byte
C13_Witness ==
    /\ calls = 2
    /\ last.op = "read_request_body"
    /\ last.result = "Ok"
    /\ last.errno = ERRNO_OK
    /\ OutLen(memory, last.a3) >= 1
    /\ 512 \in DOMAIN events
    /\ events[512].ty = SUBSCRIPTION_TYPE_REQUEST_READ
    /\ events[512].errno = ERRNO_OK

\* C14 as stated: the sending guest, which polls with a response-writable
\* subscription whenever write_response_body returns would-block and then
\* writes again, eventually has all its SendLen bytes written to the sink.
C14_AllWrittenToSink == <>(response_body_writer = SendBytes)

\* C14: the sending guest eventually has all its SendLen bytes accepted by
\* write_response_body, and at every moment the bytes the sink has taken
\* followed by the bytes in the outbound buffer are the bytes accepted so far,
\* in order; the bytes accepted last stay in the outbound buffer until a
\* further response-writable poll writes them.
C14_AllAccepted ==
    /\ [](response_body_writer \o response_body_buf = accepted)
    /\ <>(accepted = SendBytes)

\* C14 witness: all the bytes have been accepted, after a would-block and a
\* poll that wrote a part of the buffer to the sink
C14_Witness ==
    /\ accepted = SendBytes
    /\ SendLen > RESPONSE_BODY_CAP
    /\ response_body_writer # <<>>
    /\ response_body_buf # <<>>
    /\ last.op = "write_response_body"

\* subs[i] is the first subscription of its kind in subs
FirstOfKind(subs, i) == \A j \in 1..(i - 1) : subs[j].ty # subs[i].ty

\* C15: a poll call drives at most one request-read and one response-write
\* source, each echoing the userdata of the first subscription of its kind,
\* and one timer per timeout subscription; the event carries the kind and the
\* userdata of the subscription whose source completed: the first
\* request-read one, the first response-write one, or a timeout subscription
\* whose time has passed.  A single read or write was made for it, and a
\* timer moved no byte.
C15_EventOfSubscription ==
    [][ (Step("poll") /\ last'.result = "Ok") =>
          LET subs == last'.subs
              ev == last'.event
          IN  /\ \E i \in 1..Len(subs) :
                   /\ ev.ty = subs[i].ty
                   /\ ev.userdata = subs[i].userdata
                   /\ \/ /\ ev.ty \in {SUBSCRIPTION_TYPE_REQUEST_READ,
                                       SUBSCRIPTION_TYPE_RESPONSE_WRITE}
                         /\ FirstOfKind(subs, i)
                      \/ /\ ev.ty = SUBSCRIPTION_TYPE_TIMEOUT
                         /\ subs[i].timeout <= last'.elapsed
              /\ events' = (last'.a3 :> ev) @@ events
              /\ Len(request_body_reader) - Len(request_body_reader') =
                    (IF ev.ty = SUBSCRIPTION_TYPE_REQUEST_READ /\ last'.io > 0
                     THEN last'.io ELSE 0)
              /\ Len(response_body_writer') - Len(response_body_writer) =
                    (IF ev.ty = SUBSCRIPTION_TYPE_RESPONSE_WRITE /\ last'.io > 0
                     THEN last'.io ELSE 0) ]_vars

\* C15 witness: with two timeout subscriptions the timer of the second one
\* completed first, and the event carries its userdata
C15_Witness ==
    /\ last.op = "poll"
    /\ last.result = "Ok"
    /\ last.subs = <<T2, T1>>
    /\ last.event = [ty |-> SUBSCRIPTION_TYPE_TIMEOUT, userdata |-> 31, errno |-> ERRNO_OK]
    /\ events[last.a3] = last.event

\* C16: when the body source's read fails inside poll the event has kind
\* request-readable and status Unknown; when the body sink's write fails it
\* has kind response-writable and status Unknown.  In both cases poll returns
\* normally (the event location being inside the memory), and the inbound
\* buffer, the EOF flag, the outbound buffer and what the source and the sink
\* hold are as before.
C16_IoFailure ==
    [][ ( /\ Step("poll")
          /\ last'.io = -1
          /\ InMemory(last'.a3, RawEventSize) ) =>
          /\ last'.result = "Ok"
          /\ status' = "running"
          /\ last'.event.errno = ERRNO_UNKNOWN
          /\ last'.event.ty = Futures(last'.subs)[Winner(last'.ready)].ty
          /\ last'.event.ty \in {SUBSCRIPTION_TYPE_REQUEST_READ,
                                 SUBSCRIPTION_TYPE_RESPONSE_WRITE}
          /\ events'[last'.a3] = last'.event
          /\ UNCHANGED <<request_body_buf, request_body_eof, response_body_buf,
                         request_body_reader, response_body_writer>> ]_vars

\* C16 witness: a write of a non-empty outbound buffer failed, and the event is
\* response-writable with status Unknown
C16_Witness ==
    /\ last.op = "poll"
    /\ last.result = "Ok"
    /\ last.io = -1
    /\ response_body_buf # <<>>
    /\ last.event = [ty |-> SUBSCRIPTION_TYPE_RESPONSE_WRITE, userdata |-> 21,
                     errno |-> ERRNO_UNKNOWN]

\* C17: the EOF flag is false at the start of an invocation, is never reset
\* once true, and becomes true only in a poll call whose request-read source
\* won the race and returned zero bytes.
C17_EofMonotonic ==
    /\ request_body_eof = FALSE
    /\ [][ /\ request_body_eof => request_body_eof'
           /\ (~request_body_eof /\ request_body_eof') =>
                /\ Step("poll")
                /\ Futures(last'.subs)[Winner(last'.ready)].ty =
                      SUBSCRIPTION_TYPE_REQUEST_READ
                /\ last'.io = 0
                /\ last'.event.ty = SUBSCRIPTION_TYPE_REQUEST_READ ]_vars

\* C17 witness: after the flag was set by a read of zero bytes, a failed read
\* left it set
C17_Witness ==
    /\ request_body_eof
    /\ last.op = "poll"
    /\ last.event.ty = SUBSCRIPTION_TYPE_REQUEST_READ
    /\ last.io = -1

\* C18: after any sequence of calls the bytes the sink has taken followed by
\* the contents of the outbound buffer are, in order, the concatenation of
\* the prefixes write_response_body accepted; and a poll whose response-write
\* source reported n bytes written removes exactly the first n bytes of the
\* buffer, which are the bytes the sink has taken.
C18_OutboundFifo ==
    /\ [](response_body_writer \o response_body_buf = accepted)
    /\ [][ ( /\ Step("poll")
             /\ last'.event.ty = SUBSCRIPTION_TYPE_RESPONSE_WRITE
             /\ last'.io >= 0 ) =>
             /\ last'.io <= Len(response_body_buf)
             /\ response_body_buf' = Drop(response_body_buf, last'.io)
             /\ response_body_writer' =
                    response_body_writer \o Take(response_body_buf, last'.io)
             /\ accepted' = accepted ]_vars

\* C18 witness: the sink took one byte of a buffer of 20 accepted bytes
C18_Witness ==
    /\ last.op = "poll"
    /\ last.event.ty = SUBSCRIPTION_TYPE_RESPONSE_WRITE
    /\ last.io = 1
    /\ Len(response_body_writer) = 1
    /\ Len(response_body_buf) = 19
    /\ Len(accepted) = 20

\* C19: every poll call with at least one subscription races a non-empty set
\* of sources, whatever the kind tags of the subscriptions are, and so never
\* aborts for lack of a source to wait on.
C19_RaceNonEmpty ==
    ( /\ last.op = "poll"
      /\ last.a2 >= 1
      /\ InMemory(last.a1, last.a2 * RawSubscriptionSize) ) =>
        /\ Futures(last.subs) # <<>>
        /\ last.result # "Panic"

\* C20: a read_request_body or write_response_body call that fails with
\* MemoryAccess, for a bad buffer range or a bad out_len location, leaves the
\* inbound buffer, the outbound buffer and the EOF flag exactly as they were.
C20_FailureChangesNothing ==
    [][ ( /\ Step("read_request_body") \/ Step("write_response_body")
          /\ last'.result = "MemoryAccess" ) =>
          UNCHANGED <<request_body_buf, response_body_buf, request_body_eof>> ]_vars

====
